---- MODULE Spec2Model ----
(***************************************************************************)
(* Model of the ink! contract CrossContractFlipper (src/lib.rs).           *)
(*                                                                         *)
(* The contract keeps a bool `value` in its root storage cell and the code *)
(* hash it delegates to in a separate Lazy cell.  Every top-level call     *)
(* (instantiate with `new`, `call_delegate_flip`, `get`) is a transaction: *)
(* it works on a copy `tx` of the chain state `chain` and either commits   *)
(* the copy or is discarded as a whole.  The steps of one transaction are  *)
(* sequenced by `pc`; no other transaction and no environment action runs  *)
(* while pc # "idle".                                                      *)
(***************************************************************************)
EXTENDS Naturals, Sequences, FiniteSets, TLC

VARIABLES
    registry,   \* the environment's code registry: code hash -> kind of code
    chain,      \* committed state of the delegator: instance, storage, locks
    tx,         \* working copy of `chain` inside the running transaction
    pc,         \* position of the running transaction ("idle" between calls)
    args,       \* arguments of the running / last successful constructor
    mem,        \* the in-memory `self` the running message loaded
    target,     \* the Hash handed to .delegate(..) by the running message
    outcome,    \* what the delegate call of the running message came to
    result,     \* outcome of the last finished top-level call
    calls,      \* number of call_delegate_flip transactions started
    okFlips,    \* number of call_delegate_flip whose delegate call succeeded
    attempts,   \* number of instantiations started
    origin,     \* a deployed instance of foreign code, with storage of its own
    log         \* the delegate invocations issued so far, in order

vars == <<registry, chain, tx, pc, args, mem, target, outcome, result, calls, okFlips, attempts,
          origin, log>>

----------------------------------------------------------------------------
(* Bounds of the model *)

NumHashes == 2
MaxCalls == 3
MaxAttempts == 2
MaxOriginCalls == 1

----------------------------------------------------------------------------
(* Values *)

\* A code hash: a fixed-width byte string (two bytes here instead of 32).
Hashes == { <<17, i>> : i \in 1..NumHashes }
NoHash == << >>

\* What the code behind a hash does when it is entered with the selector of
\* `flip`: toggle the bool of the root cell, return with the REVERT flag, trap,
\* or -- code that has no `flip` message -- fail to match the selector.
Kinds == {"flipper", "reverter", "trapper", "noflip"}
Absent == "absent"

\* Storage keys of the contract: the root cell of the #[ink(storage)] struct
\* holds the packed field `value`; the Lazy field has a cell of its own.
RootKey == "root"
\* Variant: the Lazy cell shares the key of the root cell.
LazyKey_Collides == RootKey
LazyKey == "lazy.delegate_to"
Keys == {RootKey, LazyKey}

EmptyStorage == [k \in {} |-> << >>]

EmptyChain ==
    [exists  |-> FALSE,
     storage |-> EmptyStorage,
     locks   |-> [h \in Hashes |-> 0],
     writes  |-> [k \in Keys |-> 0]]

NoArgs == [init_value |-> FALSE, code_hash |-> NoHash]
NoMem == [loaded |-> FALSE, value |-> FALSE]
NoOrigin == [code_hash |-> NoHash, state |-> EmptyChain]
NoResult == [op |-> "none", status |-> "none", ret |-> FALSE, delegate |-> "none"]

----------------------------------------------------------------------------
(* Encoding of the stored fields (SCALE): a bool is one byte, 0 or 1 *)

EncodeBool(b) == IF b THEN <<1>> ELSE <<0>>

IsBool(bytes) == bytes = <<0>> \/ bytes = <<1>>

DecodeBool(bytes) == bytes = <<1>>

EncodeHash(h) == h

IsHash(bytes) == bytes \in Hashes

----------------------------------------------------------------------------
(* Storage primitives of the execution environment *)

\* set_contract_storage: write `bytes` under `key` in the state `c`.
SetStorage(c, key, bytes) ==
    [c EXCEPT
        !.storage = [k \in (DOMAIN c.storage) \cup {key} |->
                        IF k = key THEN bytes ELSE c.storage[k]],
        !.writes  = [c.writes EXCEPT ![key] = @ + 1]]

HasStorage(c, key) == key \in DOMAIN c.storage

----------------------------------------------------------------------------
(* The code registry of the execution environment *)

CodeExists(h) == registry[h] # Absent

\* The environment refuses to remove code some contract has locked as a
\* delegate dependency, or that a deployed instance runs.
Removable(h) == CodeExists(h) /\ chain.locks[h] = 0 /\ origin.code_hash # h

\* client.upload(..): code is put under its hash.
UploadCode(h, kind) ==
    /\ pc = "idle"
    /\ ~CodeExists(h)
    /\ registry' = [registry EXCEPT ![h] = kind]
    /\ UNCHANGED <<chain, tx, pc, args, mem, target, outcome, result, calls, okFlips, attempts,
                   origin, log>>

\* Code removal, refused while the code is locked.
RemoveCode(h) ==
    /\ pc = "idle"
    /\ Removable(h)
    /\ registry' = [registry EXCEPT ![h] = Absent]
    /\ UNCHANGED <<chain, tx, pc, args, mem, target, outcome, result, calls, okFlips, attempts,
                   origin, log>>

----------------------------------------------------------------------------
(* Root storage of the contract: ink! pulls the #[ink(storage)] struct from *)
(* the root cell before a message runs and pushes it back after a message   *)
(* that takes &mut self (and after a constructor).                          *)

CanPullRoot(c) == HasStorage(c, RootKey) /\ IsBool(c.storage[RootKey])

PullRoot(c) == [loaded |-> TRUE, value |-> DecodeBool(c.storage[RootKey])]

PushRoot(c, v) == SetStorage(c, RootKey, EncodeBool(v))

----------------------------------------------------------------------------
(* Constructor: new(init_value, code_hash) *)

\* Variant: the Lazy cell is created but never set.
LazySet_Forgotten(c, h) == c

\* let mut delegate_to = Lazy::new(); delegate_to.set(&code_hash);
LazySet(c, h) == SetStorage(c, LazyKey, EncodeHash(h))

\* Variant: the lock is not registered.
lock_delegate_dependency_Noop(c, h) == c

\* Self::env().lock_delegate_dependency(&code_hash), code present
lock_delegate_dependency(c, h) == [c EXCEPT !.locks[h] = @ + 1]

\* Variant: the constructor stores the default value, not its argument.
StoreSelf_Default(c, init_value) == PushRoot(c, FALSE)

\* Self { value: init_value, delegate_to }, pushed to the root cell
StoreSelf(c, init_value) == PushRoot(c, init_value)

\* The transaction is discarded: nothing of `tx` reaches `chain`.
Abort(op, status, delegate) ==
    /\ tx' = chain
    /\ pc' = "idle"
    /\ mem' = NoMem
    /\ target' = NoHash
    /\ outcome' = "none"
    /\ result' = [op |-> op, status |-> status, ret |-> FALSE, delegate |-> delegate]
    /\ UNCHANGED <<registry, chain, attempts>>

\* The transaction ends normally: `c` becomes the chain state.
Commit(c, op, ret, delegate) ==
    /\ chain' = c
    /\ tx' = c
    /\ pc' = "idle"
    /\ mem' = NoMem
    /\ target' = NoHash
    /\ outcome' = "none"
    /\ result' = [op |-> op, status |-> "ok", ret |-> ret, delegate |-> delegate]
    /\ UNCHANGED <<registry, attempts>>

\* client.instantiate("cross-contract-flipper", .., new(init_value, code_hash))
Instantiate(init_value, code_hash) ==
    /\ pc = "idle"
    /\ ~chain.exists
    /\ attempts < MaxAttempts
    /\ attempts' = attempts + 1
    /\ args' = [init_value |-> init_value, code_hash |-> code_hash]
    /\ tx' = [chain EXCEPT !.exists = TRUE]
    /\ pc' = "new_set"
    /\ UNCHANGED <<registry, chain, mem, target, outcome, result, calls, okFlips>>
    /\ UNCHANGED <<origin, log>>

\* Variant: the value is stored together with delegate_to, before the lock.
NewSetLazy_ValueFirst ==
    /\ pc = "new_set"
    /\ tx' = StoreSelf(LazySet(tx, args.code_hash), args.init_value)
    /\ pc' = "new_lock"
    /\ UNCHANGED <<registry, chain, args, mem, target, outcome, result, calls, okFlips, attempts>>
    /\ UNCHANGED <<origin, log>>

NewSetLazy ==
    /\ pc = "new_set"
    /\ tx' = LazySet(tx, args.code_hash)
    /\ pc' = "new_lock"
    /\ UNCHANGED <<registry, chain, args, mem, target, outcome, result, calls, okFlips, attempts>>
    /\ UNCHANGED <<origin, log>>

\* Variant: a failed lock is ignored and construction goes on.
NewLock_Unchecked ==
    /\ pc = "new_lock"
    /\ tx' = IF CodeExists(args.code_hash)
               THEN lock_delegate_dependency(tx, args.code_hash)
               ELSE tx
    /\ pc' = "new_store"
    /\ UNCHANGED <<registry, chain, args, mem, target, outcome, result, calls, okFlips, attempts>>
    /\ UNCHANGED <<origin, log>>

\* Variant: the constructor checks the code but never locks it.
NewLock_Skipped ==
    /\ pc = "new_lock"
    /\ IF CodeExists(args.code_hash)
         THEN /\ pc' = "new_store"
              /\ UNCHANGED <<registry, chain, tx, args, mem, target, outcome, result, calls, attempts>>
         ELSE /\ Abort("new", "trapped", "none")
              /\ args' = NoArgs
              /\ UNCHANGED calls
    /\ UNCHANGED okFlips
    /\ UNCHANGED <<origin, log>>

\* The host function traps when the code is not in the registry; the trap
\* ends the instantiation and all of its effects are discarded.
NewLock ==
    /\ pc = "new_lock"
    /\ IF CodeExists(args.code_hash)
         THEN /\ tx' = lock_delegate_dependency(tx, args.code_hash)
              /\ pc' = "new_store"
              /\ UNCHANGED <<registry, chain, args, mem, target, outcome, result, calls, attempts>>
         ELSE /\ Abort("new", "trapped", "none")
              /\ args' = NoArgs
              /\ UNCHANGED calls
    /\ UNCHANGED okFlips
    /\ UNCHANGED <<origin, log>>

NewStore ==
    /\ pc = "new_store"
    /\ Commit(StoreSelf(tx, args.init_value), "new", FALSE, "none")
    /\ UNCHANGED <<args, calls, okFlips>>
    /\ UNCHANGED <<origin, log>>

----------------------------------------------------------------------------
(* Entry points *)

\* ink::selector_bytes!(name): the first four bytes of BLAKE2b-256(name).
selector_bytes(name) ==
    CASE name = "flip" -> <<99, 58, 165, 81>>
      [] name = "get"  -> <<47, 134, 91, 217>>
      [] OTHER         -> <<0, 0, 0, 0>>

\* The selectors the code of each kind answers to.
EntryPoints(kind) ==
    IF kind = "noflip" THEN {selector_bytes("get")}
    ELSE {selector_bytes("flip"), selector_bytes("get")}

\* The foreign `flip`, run on the storage it is given: toggle the bool of the
\* root cell.
ForeignFlip(c) == PushRoot(c, ~PullRoot(c).value)

\* What entering the code of `kind` with `selector` does to the state `c` it
\* runs on.  A callee that traps or reverts leaves no storage change behind.
RunForeign(kind, selector, c) ==
    IF selector \notin EntryPoints(kind)
      THEN [outcome |-> "reverted", state |-> c]
    ELSE IF kind = "reverter"
      THEN [outcome |-> "reverted", state |-> c]
    ELSE IF kind = "trapper" \/ ~CanPullRoot(c)
      THEN [outcome |-> "trapped", state |-> c]
    ELSE IF selector = selector_bytes("get")
      THEN [outcome |-> "ok", state |-> c]
    ELSE [outcome |-> "ok", state |-> ForeignFlip(c)]

\* An instance of the foreign code is deployed with a value of its own.
DeployOther(h, v) ==
    /\ pc = "idle"
    /\ origin = NoOrigin
    /\ CodeExists(h)
    /\ origin' = [code_hash |-> h,
                  state |-> PushRoot([EmptyChain EXCEPT !.exists = TRUE], v)]
    /\ UNCHANGED <<registry, chain, tx, pc, args, mem, target, outcome, result, calls, okFlips,
                   attempts, log>>

\* A plain call of the deployed instance's flip: it runs on its own storage.
CallOtherFlip ==
    /\ pc = "idle"
    /\ origin # NoOrigin
    /\ origin.state.writes[RootKey] <= MaxOriginCalls
    /\ LET r == RunForeign(registry[origin.code_hash], selector_bytes("flip"), origin.state) IN
         /\ r.outcome = "ok"
         /\ origin' = [origin EXCEPT !.state = r.state]
    /\ UNCHANGED <<registry, chain, tx, pc, args, mem, target, outcome, result, calls, okFlips,
                   attempts, log>>

----------------------------------------------------------------------------
(* Message: call_delegate_flip(&mut self) *)

\* Variant: a plain cross-contract call, which runs the code on the storage
\* of its deployed instance and leaves the caller's alone.
DelegateCall_PlainCall(c, code_hash, selector) ==
    IF ~CodeExists(code_hash) \/ origin.code_hash # code_hash
      THEN [outcome |-> "missing", state |-> c, origin |-> origin]
      ELSE LET r == RunForeign(registry[code_hash], selector, origin.state) IN
             [outcome |-> r.outcome, state |-> c,
              origin |-> [origin EXCEPT !.state = r.state]]

\* The delegate-call primitive: the code behind `code_hash` runs on the
\* storage of the caller `c`; no deployed instance of the code is involved.
DelegateCall(c, code_hash, selector) ==
    IF ~CodeExists(code_hash)
      THEN [outcome |-> "missing", state |-> c, origin |-> origin]
      ELSE LET r == RunForeign(registry[code_hash], selector, c) IN
             [outcome |-> r.outcome, state |-> r.state, origin |-> origin]

\* Variant: the call is issued without TAIL_CALL and always comes back.
\*
\* CallFlags::TAIL_CALL: when the callee returns (with or without the REVERT
\* flag) the caller's execution ends there and the callee's output is the
\* caller's output.  An error of the call itself (callee trapped, code not
\* found) is handed back to the caller as an error code.
EndsCaller_NoTailCall(o) == FALSE

EndsCaller(o) == o \in {"ok", "reverted"}

\* fn delegate_to(&self): self.delegate_to.get().expect(..)
HasDelegateTo(c) == HasStorage(c, LazyKey) /\ IsHash(c.storage[LazyKey])

delegate_to(c) == c.storage[LazyKey]

\* Variant: a fresh default `self` is pushed.
FlushSelf_Default(c, m) == PushRoot(c, FALSE)

\* The value pushed to the root cell when the message returns to ink!'s
\* dispatcher: the `self` loaded before the message ran.
FlushSelf(c, m) == PushRoot(c, m.value)

\* client.call(.., call_delegate_flip): the dispatcher pulls `self`.
CallDelegateFlip ==
    /\ pc = "idle"
    /\ chain.exists
    /\ calls < MaxCalls
    /\ calls' = calls + 1
    /\ IF CanPullRoot(chain)
         THEN /\ mem' = PullRoot(chain)
              /\ tx' = chain
              /\ pc' = "flip_target"
              /\ UNCHANGED <<registry, chain, target, outcome, result, attempts>>
         ELSE Abort("call_delegate_flip", "trapped", "none")
    /\ UNCHANGED <<args, okFlips>>
    /\ UNCHANGED <<origin, log>>

\* Variant: the message locks the dependency again before each call.
FlipReadTarget_Relocks ==
    /\ pc = "flip_target"
    /\ HasDelegateTo(tx)
    /\ target' = delegate_to(tx)
    /\ tx' = lock_delegate_dependency(tx, delegate_to(tx))
    /\ pc' = "flip_invoke"
    /\ UNCHANGED <<registry, chain, mem, outcome, result, calls, attempts>>
    /\ UNCHANGED <<args, okFlips>>
    /\ UNCHANGED <<origin, log>>

\* .delegate(self.delegate_to())
FlipReadTarget ==
    /\ pc = "flip_target"
    /\ IF HasDelegateTo(tx)
         THEN /\ target' = delegate_to(tx)
              /\ pc' = "flip_invoke"
              /\ UNCHANGED <<registry, chain, tx, mem, outcome, result, calls, attempts>>
         ELSE /\ Abort("call_delegate_flip", "trapped", "none")
              /\ UNCHANGED calls
    /\ UNCHANGED <<args, okFlips>>
    /\ UNCHANGED <<origin, log>>

\* Variant: the selector of another message is used.
FlipCall_WrongSelector(t) ==
    [code_hash |-> t, selector |-> selector_bytes("get"), input |-> << >>]

\* The invocation built for the target `t`: the selector of "flip" and an
\* ExecutionInput with no argument pushed.
FlipCall(t) ==
    [code_hash |-> t, selector |-> selector_bytes("flip"), input |-> << >>]

\* .call_flags(TAIL_CALL).exec_input(Selector::new(selector)).try_invoke()
FlipInvoke ==
    /\ pc = "flip_invoke"
    /\ LET call == FlipCall(target)
           r == DelegateCall(tx, call.code_hash, call.selector) IN
         /\ log' = Append(log, call)
         /\ origin' = r.origin
         /\ okFlips' = IF r.outcome = "ok" THEN okFlips + 1 ELSE okFlips
         /\ IF EndsCaller(r.outcome)
              THEN IF r.outcome = "ok"
                     THEN Commit(r.state, "call_delegate_flip", FALSE, r.outcome)
                     ELSE Abort("call_delegate_flip", "reverted", r.outcome)
              ELSE /\ tx' = r.state
                   /\ outcome' = r.outcome
                   /\ pc' = "flip_return"
                   /\ UNCHANGED <<registry, chain, mem, target, result, attempts>>
    /\ UNCHANGED <<args, calls>>

\* Variant: a failed invocation is issued again.
FlipReturn_Retry ==
    /\ pc = "flip_return"
    /\ pc' = "flip_invoke"
    /\ outcome' = "none"
    /\ UNCHANGED <<registry, chain, tx, args, mem, target, result, calls, okFlips, attempts>>
    /\ UNCHANGED <<origin, log>>

\* let _ = ..: the error is dropped, the message returns and `self` is pushed.
FlipReturn ==
    /\ pc = "flip_return"
    /\ Commit(FlushSelf(tx, mem), "call_delegate_flip", FALSE, outcome)
    /\ UNCHANGED <<args, calls, okFlips>>
    /\ UNCHANGED <<origin, log>>

----------------------------------------------------------------------------
(* Message: get(&self) *)

\* self.value of the `self` pulled from the state `c`
get(c) == PullRoot(c).value

\* Variant: get takes &mut self, so `self` is pushed after it.
Get_Pushes ==
    /\ pc = "idle"
    /\ chain.exists
    /\ IF CanPullRoot(chain)
         THEN Commit(PushRoot(chain, get(chain)), "get", get(chain), "none")
         ELSE Abort("get", "trapped", "none")
    /\ UNCHANGED <<args, calls, okFlips>>
    /\ UNCHANGED <<origin, log>>

\* client.call(.., get): nothing is pushed after a &self message.
Get ==
    /\ pc = "idle"
    /\ chain.exists
    /\ IF CanPullRoot(chain)
         THEN Commit(chain, "get", get(chain), "none")
         ELSE Abort("get", "trapped", "none")
    /\ UNCHANGED <<args, calls, okFlips>>
    /\ UNCHANGED <<origin, log>>

----------------------------------------------------------------------------

Init ==
    /\ registry = [h \in Hashes |-> Absent]
    /\ chain = EmptyChain
    /\ tx = EmptyChain
    /\ pc = "idle"
    /\ args = NoArgs
    /\ mem = NoMem
    /\ target = NoHash
    /\ outcome = "none"
    /\ result = NoResult
    /\ calls = 0
    /\ okFlips = 0
    /\ attempts = 0
    /\ origin = NoOrigin
    /\ log = << >>

Next ==
    \/ \E h \in Hashes, kind \in Kinds : UploadCode(h, kind)
    \/ \E h \in Hashes : RemoveCode(h)
    \/ \E h \in Hashes, v \in BOOLEAN : DeployOther(h, v)
    \/ CallOtherFlip
    \/ \E init_value \in BOOLEAN, code_hash \in Hashes : Instantiate(init_value, code_hash)
    \/ NewSetLazy
    \/ NewLock
    \/ NewStore
    \/ CallDelegateFlip
    \/ FlipReadTarget
    \/ FlipInvoke
    \/ FlipReturn
    \/ Get

Spec == Init /\ [][Next]_vars

----------------------------------------------------------------------------
(* Properties *)

\* A top-level call of `op` has just finished in this state.
Finished(op) == pc = "idle" /\ result.op = op

\* The value of `a` after an odd / even number of toggles.
Toggled(a, n) == IF n % 2 = 0 THEN a ELSE ~a

\* C1: for both init values and every code hash of the registry, right after
\* a successful new(init_value, code_hash) -- before any call_delegate_flip --
\* the root cell decodes and get() returns init_value.
C1_GetAfterNew ==
    (chain.exists /\ calls = 0) =>
        /\ CanPullRoot(chain)
        /\ get(chain) = args.init_value
        /\ (Finished("get") => result.status = "ok" /\ result.ret = args.init_value)

C1_Witness ==
    /\ chain.exists /\ calls = 0
    /\ args.init_value = TRUE
    /\ Finished("get") /\ result.ret = TRUE

C3_FlipLeavesFalse ==
    (/\ chain.exists /\ pc = "idle"
     /\ args.init_value = FALSE
     /\ registry[args.code_hash] = "flipper"
     /\ calls = 1) =>
        /\ result.status = "ok"
        /\ get(chain) = FALSE

\* C4: call_delegate_flip returns normally whatever the delegate call came
\* to (ok, reverted, trapped, missing, selector not matched).
C4_FlipAlwaysReturnsOk ==
    Finished("call_delegate_flip") => result.status = "ok"

\* C5: when the delegate call fails (the foreign code reverts, traps, has no
\* flip, or is missing), get() after call_delegate_flip is what it was before
\* the call.
C5_FailedFlipKeepsValue ==
    [][(/\ pc # "idle" /\ pc' = "idle"
        /\ result'.op = "call_delegate_flip"
        /\ result'.delegate # "ok") =>
           /\ CanPullRoot(chain')
           /\ get(chain') = get(chain)]_vars

C5_Witness ==
    /\ Finished("call_delegate_flip")
    /\ result.delegate = "trapped"
    /\ get(chain) = TRUE

\* C6: new with a code hash that is not in the registry fails as a whole:
\* construction never gets past the lock, and afterwards there is no
\* instance, no stored value or delegate_to, and no lock.
C6_AtomicConstruction ==
    /\ (pc = "new_store" => CodeExists(args.code_hash))
    /\ (chain.exists => CodeExists(args.code_hash))
    /\ ((result.op = "new" /\ result.status # "ok") => chain = EmptyChain)

C6_Witness ==
    /\ Finished("new") /\ result.status = "trapped"
    /\ chain = EmptyChain
    /\ attempts = 1

\* C7: in every state after a successful construction delegate_to is set,
\* the code it names is locked by this contract and is still in the registry
\* (the environment cannot remove it).
C7_TargetLocked ==
    chain.exists =>
        /\ HasDelegateTo(chain)
        /\ chain.locks[delegate_to(chain)] > 0
        /\ CodeExists(delegate_to(chain))
        /\ ~Removable(delegate_to(chain))

C7_Witness ==
    /\ chain.exists /\ calls = 2 /\ okFlips = 2
    /\ Finished("get")
    /\ chain.locks[delegate_to(chain)] > 0

\* C8: delegate_to is written once, by the constructor, with its code_hash
\* argument, and holds that value in every later state, whatever number of
\* delegate calls have run foreign code on this storage.
C8_TargetWrittenOnce ==
    chain.exists =>
        /\ HasDelegateTo(chain)
        /\ delegate_to(chain) = args.code_hash
        /\ chain.writes[LazyKey] = 1

C8_Witness ==
    /\ chain.exists /\ okFlips = 2
    /\ chain.writes[RootKey] = 3
    /\ delegate_to(chain) = args.code_hash

\* C9: the lock on code_hash is in place in every state in which anything of
\* the program can be observed from outside the constructing transaction: a
\* committed instance or storage, a running or finished message.  Inside the
\* constructor the value is not stored before the lock.
C9_LockBeforeEffects ==
    /\ (\/ chain.exists
        \/ chain.storage # EmptyStorage
        \/ result.op \in {"call_delegate_flip", "get"}
        \/ pc \in {"flip_target", "flip_invoke", "flip_return"})
          => (args.code_hash \in Hashes /\ chain.locks[args.code_hash] > 0)
    /\ HasStorage(tx, RootKey)
          => (args.code_hash \in Hashes /\ tx.locks[args.code_hash] > 0)

C9_Witness ==
    /\ Finished("new") /\ result.status = "ok"
    /\ chain.exists /\ calls = 0
    /\ chain.locks[args.code_hash] = 1

\* C10: get() returns the stored value, never fails once the contract is
\* constructed, and changes neither the storage nor the locks.
C10_GetIsPure ==
    /\ [](chain.exists => CanPullRoot(chain))
    /\ [][(/\ pc = "idle" /\ pc' = "idle"
           /\ registry' = registry
           /\ result'.op = "get") =>
              /\ result'.status = "ok"
              /\ result'.ret = DecodeBool(chain.storage[RootKey])
              /\ chain' = chain]_vars

C10_Witness ==
    /\ Finished("get") /\ result.status = "ok"
    /\ result.ret = TRUE /\ okFlips = 1

\* C11: the foreign code run by call_delegate_flip reads and writes the
\* delegator's storage: a successful call toggles the delegator's own value,
\* and no step of any call of the delegator changes the storage of a
\* deployed instance of the referenced code.
C11_WritesLandOnCaller ==
    /\ [][pc # "idle" => origin' = origin]_vars
    /\ [][(pc = "flip_invoke" /\ pc' = "idle" /\ result'.delegate = "ok") =>
             /\ get(chain') = ~get(chain)
             /\ chain'.writes[RootKey] = chain.writes[RootKey] + 1]_vars

C11_Witness ==
    /\ Finished("call_delegate_flip") /\ result.delegate = "ok"
    /\ origin.code_hash = args.code_hash
    /\ args.init_value = FALSE /\ okFlips = 1
    /\ get(chain) = TRUE
    /\ get(origin.state) = FALSE

\* C12: a construction stores code_hash into delegate_to first, then
\* registers the lock, then stores init_value into value; value is never
\* stored before the lock is registered.
C12_ConstructionOrder ==
    /\ pc = "new_set" =>
          /\ ~HasStorage(tx, LazyKey) /\ ~HasStorage(tx, RootKey)
          /\ tx.locks[args.code_hash] = 0
    /\ pc = "new_lock" =>
          /\ HasDelegateTo(tx) /\ delegate_to(tx) = args.code_hash
          /\ ~HasStorage(tx, RootKey)
          /\ tx.locks[args.code_hash] = 0
    /\ pc = "new_store" =>
          /\ HasDelegateTo(tx) /\ delegate_to(tx) = args.code_hash
          /\ ~HasStorage(tx, RootKey)
          /\ tx.locks[args.code_hash] = 1
    /\ (Finished("new") /\ result.status = "ok") =>
          /\ delegate_to(chain) = args.code_hash
          /\ chain.locks[args.code_hash] = 1
          /\ get(chain) = args.init_value
          /\ chain.writes = [k \in Keys |-> 1]

C12_Witness ==
    /\ pc = "new_store"
    /\ HasDelegateTo(tx) /\ tx.locks[args.code_hash] = 1
    /\ args.init_value = TRUE

\* C13: every call_delegate_flip issues exactly one delegate invocation,
\* also when it fails: a failed invocation is dropped and not issued again,
\* in that call or later.
C13_OneInvocationPerCall ==
    Len(log) = IF pc \in {"flip_target", "flip_invoke"} THEN calls - 1 ELSE calls

C13_Witness ==
    /\ Finished("call_delegate_flip") /\ result.delegate = "trapped"
    /\ calls = 2 /\ Len(log) = 2

\* C14: whenever call_delegate_flip reads delegate_to it finds a value; no
\* call_delegate_flip ever ends in the abort of the expect.
C14_ExpectUnreachable ==
    /\ pc = "flip_target" => HasDelegateTo(tx)
    /\ ~(result.op = "call_delegate_flip" /\ result.status = "trapped")

C14_Witness ==
    /\ pc = "flip_target" /\ okFlips = 2
    /\ HasDelegateTo(tx)

\* C15: when the foreign code returns successfully the call ends there: the
\* value it left is the value stored, the root cell has been written once
\* (by the foreign code), and the self loaded before the invocation is not
\* pushed over it.  The caller goes on after the invocation only when the
\* invocation itself failed.
C15_TailCall ==
    /\ [](pc = "flip_return" => outcome \in {"trapped", "missing"})
    /\ [][(/\ pc # "idle" /\ pc' = "idle"
           /\ result'.op = "call_delegate_flip"
           /\ result'.delegate = "ok") =>
              /\ pc = "flip_invoke"
              /\ get(chain') = ~mem.value
              /\ chain'.writes[RootKey] = chain.writes[RootKey] + 1
              /\ chain'.writes[LazyKey] = chain.writes[LazyKey]]_vars

C15_Witness ==
    /\ Finished("call_delegate_flip") /\ result.delegate = "ok"
    /\ args.init_value = TRUE /\ okFlips = 1
    /\ get(chain) = FALSE
    /\ chain.writes[RootKey] = 2

\* C16: every delegate invocation goes to the code hash given to the
\* constructor, with the selector of the name "flip" and no arguments.
C16_SameInvocation ==
    \A i \in 1..Len(log) :
        /\ log[i].code_hash = args.code_hash
        /\ log[i].selector = selector_bytes("flip")
        /\ log[i].selector \in EntryPoints("flipper")
        /\ log[i].input = << >>

C16_Witness ==
    /\ Len(log) = 3
    /\ log[1] = log[3]
    /\ log[3].code_hash = args.code_hash
    /\ okFlips = 3

\* C17: the program holds exactly one lock, on the constructor's code_hash,
\* in every state after construction; no message registers or releases one.
C17_OneLock ==
    /\ chain.exists =>
          \A h \in Hashes : chain.locks[h] = IF h = args.code_hash THEN 1 ELSE 0
    /\ pc \in {"flip_target", "flip_invoke", "flip_return"} => tx.locks = chain.locks

C17_Witness ==
    /\ chain.exists /\ calls = 3
    /\ Finished("get")
    /\ chain.locks[args.code_hash] = 1

====
